---------------------------- MODULE Spec2Model ----------------------------
(***************************************************************************)
(* verify-leetcode-3191: the exhaustive breadth-first search               *)
(* (exhaustive_search.rs), the candidate algorithm (solution.rs), the      *)
(* input enumerator (lib.rs) and the comparison harness (main.rs).         *)
(*                                                                         *)
(* A Rust Vec<i32> is a sequence (Rust index k is sequence index k + 1).   *)
(* A u32 is the set of its set bit positions, a subset of 0..31, so that   *)
(* the full 32-bit width is kept; the arithmetic the code does on it       *)
(* (<<, +, -, ^, pow) is defined on that representation below.  An         *)
(* Option<T> is <<>> (None) or <<x>> (Some(x)); a local that is not yet    *)
(* assigned is None.                                                       *)
(***************************************************************************)
EXTENDS Integers, Sequences, FiniteSets, TLC

\* Bounds of the model.
MaxLen == 5
MaxLimit == 4
MaxIterLen == 6
DeepLen == 8            \* the length of the all-zero vector of the deep search

\* Width of u32.
U32Bits == 32
\* First length the search accepts (`0..3 => return -1`).
MinLen == 3
\* `for n in 1..=32` and `nums_iter(5)` in main.
Rounds == 32
HarnessLen == 5

None == <<>>
Some(x) == <<x>>

Elems == {0, 1, 2}

---------------------------------------------------------------------------
\* u32 arithmetic on sets of bit positions.

BitPos == 0..(U32Bits - 1)

U32_MAX == BitPos

\* v << k for k < 32: the bits shifted past bit 31 are lost.
Shl(v, k) == {b + k : b \in v} \cap BitPos

\* v ^ w
Xor(v, w) == (v \ w) \cup (w \ v)

\* v + 1 (the carry runs up to the lowest clear bit; u32::MAX + 1 wraps to 0
\* in a release build and panics in a debug build, and is never computed).
AddOne(v) ==
    IF v = BitPos THEN {}
    ELSE LET c == CHOOSE b \in BitPos \ v : \A a \in BitPos \ v : b <= a
         IN  (v \ (0..(c - 1))) \cup {c}

\* v - 1 for v > 0 (the borrow runs up to the lowest set bit).
SubOne(v) ==
    LET c == CHOOSE b \in v : \A a \in v : b <= a
    IN  (v \ {c}) \cup (0..(c - 1))

\* 2_u32.pow(e) for e < 32
Pow2U32(e) == {e}

\* The u32 whose value is the small natural number k (0 <= k < 8 is all the
\* code writes as a literal: 0b111).
RECURSIVE BitsOf(_, _)
BitsOf(k, pos) ==
    IF k = 0 THEN {}
    ELSE (IF k % 2 = 1 THEN {pos} ELSE {}) \cup BitsOf(k \div 2, pos + 1)

---------------------------------------------------------------------------
VARIABLES
    nums,               \* exhaustive_search: argument
    limit,              \* exhaustive_search: argument
    pc,                 \* exhaustive_search: "call", "loop", "returned", "panicked"
    goal,               \* local: Option<u32>
    start,              \* local: Option<u32>
    visited,            \* local: the set of v with visited[v] = true
    traversal_queue,    \* local: VecDeque<Traversal>
    step,               \* local: the record last popped, Option<Traversal>
    result,             \* the value returned, Option<i32>
    iter,               \* a NumsIter [len, max, next], Option<NumsIter>
    item,               \* what the last NumsIter::next() returned
    calls,              \* how many times next() was called on iter
    yielded,            \* the vectors iter has yielded, in order
    hpc,                \* main: "round", "nums", "search", "exit"
    round,              \* main: n
    error_free,         \* main: local
    sw,                 \* main: local, Option<i32>
    stdout              \* main: the lines printed

searchVars ==
    <<nums, limit, pc, goal, start, visited, traversal_queue, step, result>>

iterVars == <<iter, item, calls, yielded>>

mainVars == <<hpc, round, error_free, sw, stdout>>

vars == <<searchVars, iterVars, mainVars>>

Traversal(v, ops) == [vertex |-> v, operations |-> ops]

\* Faulty variant: `0..2 => return -1`.
TooShort_OffByOne(len) == len \in 0..(MinLen - 2)

\* `0..3 => return -1`
TooShort(len) == len \in 0..(MinLen - 1)

\* Faulty variant: the `- 1` is missing.
GoalVertex_NoSub(len) ==
    IF len = U32Bits THEN U32_MAX ELSE Pow2U32(len)

\* Faulty variant: `3..=32 => 2_u32.saturating_pow(len as u32) - 1`, which is
\* u32::MAX - 1 at length 32.
GoalVertex_Saturating(len) ==
    IF len = U32Bits THEN SubOne(U32_MAX) ELSE SubOne(Pow2U32(len))

\* `3..32 => 2_u32.pow(len as u32) - 1, 32 => u32::MAX`
GoalVertex(len) ==
    IF len = U32Bits THEN U32_MAX ELSE SubOne(Pow2U32(len))

\* Faulty variant: `_ => ()`, any element other than 1 counts as 0.
RECURSIVE Encode_Lax(_, _, _)
Encode_Lax(v, k, acc) ==
    IF k = 0 THEN Some(acc)
    ELSE LET shifted == Shl(acc, 1) IN
         IF v[k] = 1 /\ shifted # U32_MAX
         THEN Encode_Lax(v, k - 1, AddOne(shifted))
         ELSE Encode_Lax(v, k - 1, shifted)

\* Faulty variant: `for num in nums.iter()`, the `.rev()` is missing, so
\* nums[0] becomes the most significant bit.
RECURSIVE Encode_Forward(_, _, _)
Encode_Forward(v, k, acc) ==
    IF k = 0 THEN Some(acc)
    ELSE LET shifted == Shl(acc, 1)
             num == v[Len(v) - k + 1]
         IN  CASE num = 0 -> Encode_Forward(v, k - 1, shifted)
               [] num = 1 /\ shifted # U32_MAX ->
                      Encode_Forward(v, k - 1, AddOne(shifted))
               [] OTHER -> None

\* The loop that converts nums to a u32, last element first; None when it
\* panics: on an element other than 0 and 1, or (debug build) on the overflow
\* of `start += 1`, which needs start = u32::MAX after the shift.
RECURSIVE Encode(_, _, _)
Encode(v, k, acc) ==
    IF k = 0 THEN Some(acc)
    ELSE LET shifted == Shl(acc, 1) IN
         CASE v[k] = 0 -> Encode(v, k - 1, shifted)
           [] v[k] = 1 /\ shifted # U32_MAX -> Encode(v, k - 1, AddOne(shifted))
           [] OTHER -> None

\* Faulty variant: `0..(len - 1)`, one flip index too many.
FlipIndices_Long(len) == 0..(len - 2)

\* Faulty variant: `0..(len - 3)`, the last legal flip is missing.
FlipIndices_Short(len) == 0..(len - 4)

\* `for flip_index in 0..(len - 2)`
FlipIndices(len) == 0..(len - 3)

\* `step.vertex ^ (0b111_u32 << flip_index)`
FlipVertex(v, flip_index) == Xor(v, Shl(BitsOf(7, 0), flip_index))

\* Faulty variant: `step.operations >= limit`, an exclusive limit.
OverLimit_Exclusive(ops, lim) == lim > 0 /\ ops >= lim

\* `limit > 0 && step.operations > limit`
OverLimit(ops, lim) == lim > 0 /\ ops > lim

\* Faulty variant: `operations: step.operations`, the `+ 1` is missing.
RECURSIVE Expand_NoIncrement(_, _, _, _)
Expand_NoIncrement(s, vis, len, flip_index) ==
    IF flip_index \notin FlipIndices(len) THEN <<>>
    ELSE LET vertex == FlipVertex(s.vertex, flip_index) IN
         (IF vertex \notin vis
          THEN <<Traversal(vertex, s.operations)>>
          ELSE <<>>) \o Expand_NoIncrement(s, vis, len, flip_index + 1)

\* The records one expansion pushes: the loop over flip_index, from
\* flip_index on, with visited as it is after the mark.
RECURSIVE Expand(_, _, _, _)
Expand(s, vis, len, flip_index) ==
    IF flip_index \notin FlipIndices(len) THEN <<>>
    ELSE LET vertex == FlipVertex(s.vertex, flip_index) IN
         (IF vertex \notin vis
          THEN <<Traversal(vertex, s.operations + 1)>>
          ELSE <<>>) \o Expand(s, vis, len, flip_index + 1)

\* Faulty variant: the value is recorded (`result = r;`) but the function
\* does not return.
Return_Continue(r) ==
    /\ pc' = pc
    /\ result' = Some(r)

Return(r) ==
    /\ pc' = "returned"
    /\ result' = Some(r)

\* exhaustive_search up to the first pop: the length match, the allocation
\* of visited and traversal_queue, the encoding and the seed record.
Call ==
    /\ pc = "call"
    /\ LET len == Len(nums) IN
       CASE TooShort(len) ->
              /\ Return(-1)
              /\ UNCHANGED <<goal, start, visited, traversal_queue, step>>
         [] len \in MinLen..U32Bits ->
              LET enc == Encode(nums, len, {}) IN
              /\ goal' = Some(GoalVertex(len))
              /\ IF enc = None
                 THEN /\ pc' = "panicked"
                      /\ UNCHANGED <<start, traversal_queue>>
                 ELSE /\ pc' = "loop"
                      /\ start' = enc
                      /\ traversal_queue' = <<Traversal(enc[1], 0)>>
              /\ UNCHANGED <<visited, step, result>>
         [] OTHER ->
              /\ pc' = "panicked"
              /\ UNCHANGED <<goal, start, visited, traversal_queue, step, result>>
    /\ UNCHANGED <<nums, limit, iterVars, mainVars>>

\* Faulty variant: `visited[step.vertex as usize] = true;` is the first
\* statement of the loop body, before the goal test and the limit test.
Step_MarkFirst ==
    /\ pc = "loop"
    /\ traversal_queue # <<>>
    /\ LET s == Head(traversal_queue)
           rest == Tail(traversal_queue)
       IN  /\ step' = Some(s)
           /\ visited' = visited \cup {s.vertex}
           /\ IF Some(s.vertex) = goal
              THEN /\ Return(s.operations)
                   /\ traversal_queue' = rest
              ELSE IF OverLimit(s.operations, limit)
              THEN /\ Return(-1)
                   /\ traversal_queue' = rest
              ELSE /\ traversal_queue' =
                          rest \o Expand(s, visited', Len(nums), 0)
                   /\ UNCHANGED <<pc, result>>
    /\ UNCHANGED <<nums, limit, goal, start, iterVars, mainVars>>

\* Faulty variant: `while let Some(step) = traversal_queue.pop_back()`, the
\* queue is used as a stack.
Step_PopBack ==
    /\ pc = "loop"
    /\ traversal_queue # <<>>
    /\ LET s == traversal_queue[Len(traversal_queue)]
           rest == SubSeq(traversal_queue, 1, Len(traversal_queue) - 1)
       IN  /\ step' = Some(s)
           /\ IF Some(s.vertex) = goal
              THEN /\ Return(s.operations)
                   /\ traversal_queue' = rest
                   /\ UNCHANGED visited
              ELSE IF OverLimit(s.operations, limit)
              THEN /\ Return(-1)
                   /\ traversal_queue' = rest
                   /\ UNCHANGED visited
              ELSE /\ visited' = visited \cup {s.vertex}
                   /\ traversal_queue' =
                          rest \o Expand(s, visited', Len(nums), 0)
                   /\ UNCHANGED <<pc, result>>
    /\ UNCHANGED <<nums, limit, goal, start, iterVars, mainVars>>

\* One iteration of `while let Some(step) = traversal_queue.pop_front()`.
Step ==
    /\ pc = "loop"
    /\ traversal_queue # <<>>
    /\ LET s == Head(traversal_queue)
           rest == Tail(traversal_queue)
       IN  /\ step' = Some(s)
           /\ IF Some(s.vertex) = goal
              THEN /\ Return(s.operations)
                   /\ traversal_queue' = rest
                   /\ UNCHANGED visited
              ELSE IF OverLimit(s.operations, limit)
              THEN /\ Return(-1)
                   /\ traversal_queue' = rest
                   /\ UNCHANGED visited
              ELSE /\ visited' = visited \cup {s.vertex}
                   /\ traversal_queue' =
                          rest \o Expand(s, visited', Len(nums), 0)
                   /\ UNCHANGED <<pc, result>>
    /\ UNCHANGED <<nums, limit, goal, start, iterVars, mainVars>>

\* pop_front returns None: the loop ends and the function returns -1.
QueueEmpty ==
    /\ pc = "loop"
    /\ traversal_queue = <<>>
    /\ Return(-1)
    /\ UNCHANGED <<nums, limit, goal, start, visited, traversal_queue, step>>
    /\ UNCHANGED <<iterVars, mainVars>>

---------------------------------------------------------------------------
\* lib.rs: NumsIter.

\* 2_i32.pow(len) for len <= 30.
Pow2I32(len) == 2 ^ len

\* next >> digit on a non-negative i32
Shr(x, digit) == x \div (2 ^ digit)

\* Faulty variant: `max: 2_i32.pow(len as u32)`, the `- 1` is missing.
nums_iter_NoSub(len) == [len |-> len, max |-> Pow2I32(len), next |-> 0]

nums_iter(len) == [len |-> len, max |-> Pow2I32(len) - 1, next |-> 0]

\* `for digit in (0..self.len).rev() { nums.push((self.next >> digit) % 2) }`
\* from digit down to 0.
RECURSIVE PushDigits(_, _)
PushDigits(x, digit) ==
    IF digit < 0 THEN <<>>
    ELSE <<Shr(x, digit) % 2>> \o PushDigits(x, digit - 1)

\* Faulty variant: `self.next += 1;` comes first and the test is
\* `self.next > self.max`, so a call on an exhausted iterator still counts.
NumsIterNext_IncrementFirst(it) ==
    LET n == it.next + 1 IN
    IF n > it.max
    THEN [iter |-> [it EXCEPT !.next = n], item |-> None]
    ELSE [iter |-> [it EXCEPT !.next = n],
          item |-> Some(PushDigits(n, it.len - 1))]

\* NumsIter::next: the iterator after the call and the value returned.
NumsIterNext(it) ==
    IF it.next >= it.max
    THEN [iter |-> it, item |-> None]
    ELSE LET n == it.next + 1 IN
         [iter |-> [it EXCEPT !.next = n],
          item |-> Some(PushDigits(n, it.len - 1))]

\* A call of next() on iter.
CallNext ==
    LET r == NumsIterNext(iter[1]) IN
    /\ iter' = Some(r.iter)
    /\ item' = r.item
    /\ calls' = calls + 1
    /\ yielded' = IF r.item = None THEN yielded ELSE Append(yielded, r.item[1])

\* A fresh iterator.
NewIter(len) ==
    /\ iter' = Some(nums_iter(len))
    /\ item' = None
    /\ calls' = 0
    /\ yielded' = <<>>

NoIter ==
    /\ iter = None
    /\ item = None
    /\ calls = 0
    /\ yielded = <<>>

---------------------------------------------------------------------------
\* solution.rs

\* x ^ 1 on a non-negative i32
XorOne(x) == IF x % 2 = 0 THEN x + 1 ELSE x - 1

\* Faulty variant: `index + 3 >= nums.len()`, the last legal flip is refused.
flip_Strict(v, index) ==
    IF index + 3 >= Len(v)
    THEN [ok |-> FALSE, nums |-> v]
    ELSE [ok |-> TRUE,
          nums |-> [k \in 1..Len(v) |->
                      IF (k - 1) \in index..(index + 2)
                      THEN XorOne(v[k]) ELSE v[k]]]

\* Faulty variant: `for offset in 0..2`, only two entries are flipped.
flip_TwoWide(v, index) ==
    IF index + 2 >= Len(v)
    THEN [ok |-> FALSE, nums |-> v]
    ELSE [ok |-> TRUE,
          nums |-> [k \in 1..Len(v) |->
                      IF (k - 1) \in index..(index + 1)
                      THEN XorOne(v[k]) ELSE v[k]]]

\* flip: whether the flip was legal, and nums after it.
flip(v, index) ==
    IF index + 2 >= Len(v)
    THEN [ok |-> FALSE, nums |-> v]
    ELSE [ok |-> TRUE,
          nums |-> [k \in 1..Len(v) |->
                      IF (k - 1) \in index..(index + 2)
                      THEN XorOne(v[k]) ELSE v[k]]]

\* The loop of sliding_window from index i on, with ops flips done so far.
RECURSIVE sliding_window_from(_, _, _)
sliding_window_from(v, i, ops) ==
    IF i >= Len(v) THEN ops
    ELSE IF v[i + 1] = 0
    THEN LET f == flip(v, i) IN
         IF ~f.ok THEN -1 ELSE sliding_window_from(f.nums, i + 1, ops + 1)
    ELSE sliding_window_from(v, i + 1, ops)

sliding_window(v) == sliding_window_from(v, 0, 0)

---------------------------------------------------------------------------
\* main.rs

NoMain ==
    /\ hpc = "none"
    /\ round = 0
    /\ error_free = TRUE
    /\ sw = None
    /\ stdout = <<>>

\* `for n in 1..=32 {`: the head of a round.
RoundStart ==
    /\ hpc = "round"
    /\ round <= Rounds
    /\ stdout' = Append(stdout, <<"Checking n = ", round>>)
    /\ error_free' = TRUE
    /\ NewIter(HarnessLen)
    /\ hpc' = "nums"
    /\ UNCHANGED <<searchVars, round, sw>>

\* The range 1..=32 is exhausted: main returns.
MainReturn ==
    /\ hpc = "round"
    /\ round > Rounds
    /\ hpc' = "exit"
    /\ UNCHANGED <<searchVars, iterVars, round, error_free, sw, stdout>>

\* `for nums in nums_iter(5) {`: next() is called; on a vector,
\* sliding_window runs and exhaustive_search is entered with its result as
\* the limit; on None the round ends.
ForNums ==
    /\ hpc = "nums"
    /\ CallNext
    /\ IF item' # None
       THEN /\ sw' = Some(sliding_window(item'[1]))
            /\ nums' = item'[1]
            /\ limit' = sw'[1]
            /\ pc' = "call"
            /\ goal' = None
            /\ start' = None
            /\ visited' = {}
            /\ traversal_queue' = <<>>
            /\ step' = None
            /\ result' = None
            /\ hpc' = "search"
            /\ UNCHANGED <<round, error_free, stdout>>
       ELSE /\ stdout' = IF error_free
                         THEN Append(stdout, <<"All checks passed!">>)
                         ELSE stdout
            /\ round' = round + 1
            /\ hpc' = "round"
            /\ UNCHANGED <<searchVars, error_free, sw>>

\* exhaustive_search has returned es: `if sw != es { ... }`.
Compare ==
    /\ hpc = "search"
    /\ pc = "returned"
    /\ LET es == result[1] IN
       IF sw[1] # es
       THEN /\ error_free' = FALSE
            /\ stdout' = (IF error_free THEN Append(stdout, <<"Errors:">>)
                                        ELSE stdout)
                          \o <<<<"Mismatch", nums, sw[1], es>>>>
       ELSE UNCHANGED <<error_free, stdout>>
    /\ pc' = "idle"
    /\ hpc' = "nums"
    /\ UNCHANGED <<nums, limit, goal, start, visited, traversal_queue, step,
                   result, iterVars, round, sw>>

---------------------------------------------------------------------------
\* Inputs of the search.

RECURSIVE Repeat(_, _)
Repeat(x, n) == IF n = 0 THEN <<>> ELSE Append(Repeat(x, n - 1), x)

Ones(n) == Repeat(1, n)

\* Vectors of the widths the enumeration cannot reach: all ones of length 32
\* and 33, all twos of length 33, and the length-32 vector one flip away
\* from all ones.
WideInputs ==
    { Ones(U32Bits), Ones(U32Bits + 1), Repeat(2, U32Bits + 1),
      Repeat(0, 3) \o Repeat(1, U32Bits - 3) }

Inputs == UNION {[1..n -> Elems] : n \in 0..MaxLen} \cup WideInputs

Limits == (-1)..MaxLimit

Init ==
    /\ nums \in Inputs
    /\ limit \in Limits
    /\ pc = "call"
    /\ goal = None
    /\ start = None
    /\ visited = {}
    /\ traversal_queue = <<>>
    /\ step = None
    /\ result = None
    /\ NoIter
    /\ NoMain

Next == Call \/ Step \/ QueueEmpty

Spec == Init /\ [][Next]_vars

\* The search as it is scheduled: one thread that takes its next step as
\* long as it has one, on the inputs of at most MaxLen elements.
FairInit == Init /\ Len(nums) <= MaxLen

FairSpec == FairInit /\ [][Next]_vars /\ WF_vars(Next)

\* One unlimited search that has no solution and so builds the whole graph:
\* the all-zero vector of DeepLen elements.
DeepInit ==
    /\ nums = Repeat(0, DeepLen)
    /\ limit = 0
    /\ pc = "call"
    /\ goal = None
    /\ start = None
    /\ visited = {}
    /\ traversal_queue = <<>>
    /\ step = None
    /\ result = None
    /\ NoIter
    /\ NoMain

DeepSpec == DeepInit /\ [][Next]_vars

\* The search on every 0/1 vector of the harness length under every limit
\* 1..32.
SweepInit ==
    /\ nums \in [1..HarnessLen -> {0, 1}]
    /\ limit \in 1..Rounds
    /\ pc = "call"
    /\ goal = None
    /\ start = None
    /\ visited = {}
    /\ traversal_queue = <<>>
    /\ step = None
    /\ result = None
    /\ NoIter
    /\ NoMain

SweepSpec == SweepInit /\ [][Next]_vars

\* NumsIter alone: nums_iter(len), then next() again and again (one call
\* past the first None).
IterInit ==
    /\ \E len \in 0..MaxIterLen : iter = Some(nums_iter(len))
    /\ item = None
    /\ calls = 0
    /\ yielded = <<>>
    /\ nums = <<>>
    /\ limit = 0
    /\ pc = "idle"
    /\ goal = None
    /\ start = None
    /\ visited = {}
    /\ traversal_queue = <<>>
    /\ step = None
    /\ result = None
    /\ NoMain

IterNext ==
    /\ hpc = "none"
    /\ iter # None
    /\ calls <= iter[1].max + 1
    /\ CallNext
    /\ UNCHANGED <<searchVars, mainVars>>

IterSpec == IterInit /\ [][IterNext]_vars

\* The program: main.
MainInit ==
    /\ hpc = "round"
    /\ round = 1
    /\ error_free = TRUE
    /\ sw = None
    /\ stdout = <<>>
    /\ NoIter
    /\ nums = <<>>
    /\ limit = 0
    /\ pc = "idle"
    /\ goal = None
    /\ start = None
    /\ visited = {}
    /\ traversal_queue = <<>>
    /\ step = None
    /\ result = None

MainNext ==
    \/ RoundStart
    \/ ForNums
    \/ Call
    \/ Step
    \/ QueueEmpty
    \/ Compare
    \/ MainReturn

MainSpec == MainInit /\ [][MainNext]_vars

---------------------------------------------------------------------------
\* The flip graph on vectors, stated without the u32 encoding: an edge flips
\* three consecutive entries, and MinFlips is the length of a shortest path
\* to the all-ones vector (-1 when there is none).

IsBinary(v) == \A k \in 1..Len(v) : v[k] \in {0, 1}

FlipAt(v, i) == [k \in 1..Len(v) |-> IF k \in i..(i + 2) THEN 1 - v[k] ELSE v[k]]

RECURSIVE PathLength(_, _, _, _)
PathLength(frontier, seen, target, d) ==
    IF target \in frontier THEN d
    ELSE LET n == Len(target)
             reached == seen \cup frontier
             next == {FlipAt(v, i) : v \in frontier, i \in 1..(n - 2)} \ reached
         IN  IF next = {} THEN -1 ELSE PathLength(next, reached, target, d + 1)

MinFlips(v) == PathLength({v}, {}, [k \in 1..Len(v) |-> 1], 0)

Valid == Len(nums) \in MinLen..U32Bits /\ IsBinary(nums)

---------------------------------------------------------------------------
\* Claims about exhaustive_search, checked under Spec.

Returned == pc = "returned"

AllOnes == nums = Ones(Len(nums))

\* C1: for every 0/1 vector of length 3..32, the unlimited search
\* (limit <= 0) returns the length of a shortest path in the flip graph from
\* the vector to all ones, and -1 exactly when there is no path.
C1_UnlimitedIsShortestPath ==
    (Returned /\ Valid /\ limit <= 0) => result = Some(MinFlips(nums))

\* An unlimited search that returned a three-flip minimum.
C1_Witness ==
    Returned /\ Valid /\ limit <= 0 /\ result = Some(3)

\* C3: with limit k > 0 the search never returns an operation count above
\* k; a vector whose minimum exceeds k yields -1.
C3_LimitIsCap ==
    (Returned /\ Valid /\ limit > 0) =>
        /\ result[1] <= limit
        /\ MinFlips(nums) > limit => result = Some(-1)

\* C4: with limit k > 0, a vector whose minimum d satisfies 0 <= d <= k
\* yields d.
C4_LimitIsInclusive ==
    (Returned /\ Valid /\ limit > 0 /\ MinFlips(nums) \in 0..limit) =>
        result = Some(MinFlips(nums))

\* A limited search whose minimum is exactly the limit, at least 2.
C4_Witness ==
    /\ Returned /\ Valid /\ limit >= 2
    /\ MinFlips(nums) = limit /\ result = Some(limit)

\* C6: for an all-ones vector of length 3..32 and any limit the search
\* returns 0: the seed record (start, 0) is popped, equals the goal, and the
\* search returns with nothing marked visited and nothing pushed.
C6_AllOnesReturnsZero ==
    (Len(nums) \in MinLen..U32Bits /\ AllOnes) =>
        /\ pc # "panicked"
        /\ pc = "loop" =>
               /\ start = goal
               /\ traversal_queue = <<Traversal(start[1], 0)>>
               /\ visited = {}
        /\ Returned =>
               /\ result = Some(0)
               /\ step = Some(Traversal(goal[1], 0))
               /\ visited = {}
               /\ traversal_queue = <<>>

\* The all-ones vector of length 32 returned under a positive limit.
C6_Witness ==
    Returned /\ Len(nums) = U32Bits /\ AllOnes /\ limit > 0 /\ result = Some(0)

\* C7: for a vector of length 0, 1 or 2, whatever its contents and the
\* limit, the search returns -1 at once: nothing is encoded, no goal is
\* computed, and no record is pushed or popped.
C7_ShortReturnsMinusOne ==
    (pc # "call" /\ Len(nums) < MinLen) =>
        /\ Returned
        /\ result = Some(-1)
        /\ goal = None /\ start = None /\ step = None
        /\ visited = {} /\ traversal_queue = <<>>

\* The all-ones vector of length 2 returned -1.
C7_Witness ==
    Returned /\ nums = <<1, 1>> /\ result = Some(-1)

\* C8 as claimed: for every vector with an element other than 0 and 1 the
\* search panics and returns nothing.
C8_NonBinaryPanics ==
    (pc # "call" /\ ~IsBinary(nums)) => (pc = "panicked" /\ result = None)

\* C8 as amended: for every vector of length at least 3 with an element
\* other than 0 and 1 the search panics and returns nothing.
C8_NonBinaryPanicsFromThree ==
    (pc # "call" /\ ~IsBinary(nums) /\ Len(nums) >= MinLen) =>
        (pc = "panicked" /\ result = None)

\* A vector of an accepted length, with a 2 in it, panicked.
C8_Witness ==
    pc = "panicked" /\ ~IsBinary(nums) /\ Len(nums) \in MinLen..U32Bits

---------------------------------------------------------------------------
\* Claims about the harness, checked under MainSpec.

Printed(line) ==
    Cardinality({i \in 1..Len(stdout) : stdout[i][1] = line})

\* C2: in each of the 32 rounds, for every vector nums_iter(5) yields, the
\* search entered with the candidate's result as its limit returns the
\* candidate's result; no "Errors:" or mismatch line is printed, and every
\* round that has ended printed "All checks passed!".
C2_HarnessAgrees ==
    /\ pc # "panicked"
    /\ error_free
    /\ \A i \in 1..Len(stdout) :
           stdout[i][1] \in {"Checking n = ", "All checks passed!"}
    /\ Printed("All checks passed!") = round - 1
    /\ hpc = "search" =>
           /\ nums = yielded[Len(yielded)]
           /\ sw = Some(sliding_window(nums))
           /\ limit = sw[1]
           /\ Returned => result = sw

\* main has returned after 32 rounds, each with its two lines.
C2_Witness ==
    /\ hpc = "exit"
    /\ round = Rounds + 1
    /\ Printed("All checks passed!") = Rounds
    /\ Len(stdout) = 2 * Rounds

---------------------------------------------------------------------------
\* Claims about the limit sweep, checked under SweepSpec.

\* C5 as claimed: for every 0/1 vector of length 5 and every limit in
\* 1..32, the search returns the candidate's result.
C5_EveryLimitAgrees ==
    Returned => result = Some(sliding_window(nums))

\* C5 as amended: for every 0/1 vector of length 5 and every limit in 1..32
\* that is not below the candidate's result, the search returns the
\* candidate's result.
C5_LimitAtLeastResultAgrees ==
    (Returned /\ sliding_window(nums) <= limit) =>
        result = Some(sliding_window(nums))

\* A vector the candidate solves in three flips, searched with limit 3.
C5_Witness ==
    /\ Returned /\ Len(nums) = HarnessLen
    /\ sliding_window(nums) = 3 /\ limit = 3 /\ result = Some(3)

---------------------------------------------------------------------------
\* Claims about NumsIter, checked under IterSpec.

\* The vector of length len whose entry i (from 0) is bit len - 1 - i of x.
MsbFirst(x, len) == [i \in 1..len |-> (x \div (2 ^ (len - i))) % 2]

C10_YieldsEveryVector ==
    (iter # None /\ calls > 0 /\ item = None) =>
        \A v \in [1..iter[1].len -> {0, 1}] :
            Cardinality({j \in 1..Len(yielded) : yielded[j] = v}) = 1

---------------------------------------------------------------------------
\* Claims about the full width, checked under Spec.

\* The length-32 vector whose vertex is u32::MAX ^ 0b111.
OneFlipFromMax == Repeat(0, 3) \o Repeat(1, U32Bits - 3)

\* C11: at length 32 the goal is u32::MAX, every mask 0b111 << flip_index
\* for flip_index in 0..29 keeps its three bits within the 32, and the
\* search from the vertex u32::MAX ^ 0b111 does not panic and returns 1.
C11_FullWidth ==
    (Len(nums) = U32Bits /\ IsBinary(nums) /\ pc # "call") =>
        /\ goal = Some(U32_MAX)
        /\ pc # "panicked"
        /\ FlipIndices(U32Bits) = 0..(U32Bits - 3)
        /\ \A flip_index \in FlipIndices(U32Bits) :
               Shl(BitsOf(7, 0), flip_index) =
                   {flip_index, flip_index + 1, flip_index + 2}
        /\ nums = OneFlipFromMax =>
               /\ start = Some(Xor(U32_MAX, BitsOf(7, 0)))
               /\ Returned => result = Some(1)

\* The search from u32::MAX ^ 0b111 has returned 1.
C11_Witness ==
    /\ nums = OneFlipFromMax /\ Returned /\ result = Some(1)
    /\ step = Some(Traversal(U32_MAX, 1))

---------------------------------------------------------------------------
\* Claims about termination, checked under FairSpec.

\* C12: for every 0/1 vector of a valid length and every limit the loop stops:
\* the search returns (a count, -1 at the limit, or -1 on the empty queue).
C12_Terminates ==
    Valid => <>Returned

\* An unlimited search from a vertex that cannot reach the goal emptied
\* its queue and returned -1.
C12_Witness ==
    /\ Returned /\ Valid /\ limit <= 0
    /\ result = Some(-1) /\ traversal_queue = <<>>
    /\ Cardinality(visited) > 1


---------------------------------------------------------------------------
\* Claims about the traversal queue.

\* C13: at every point of every search on a valid input the traversal queue
\* holds at most 2^n records, the number of vertices.
C13_QueueAtMostVertices ==
    (Valid /\ Len(nums) < U32Bits - 1) =>
        Len(traversal_queue) <= 2 ^ Len(nums)

\* C14: a vertex that is already in the traversal queue, or already visited,
\* is not pushed again: no vertex is in the queue twice, and none of the
\* queued vertices was expanded before.
C14_NoReEnqueue ==
    Valid =>
        /\ \A i, j \in DOMAIN traversal_queue :
               i # j => traversal_queue[i].vertex # traversal_queue[j].vertex
        /\ \A i \in DOMAIN traversal_queue :
               traversal_queue[i].vertex \notin visited

---------------------------------------------------------------------------
\* Claims about the order of the loop body.

\* The step from a state in the loop with a record to pop.
Popping == pc = "loop" /\ traversal_queue # <<>>

\* The records a step pushed: what follows the rest of the old queue.
Pushed ==
    SubSeq(traversal_queue', Len(traversal_queue), Len(traversal_queue'))

\* C15: a step compares the popped record with the goal, then with the
\* limit, and only when neither returns marks its vertex and expands it: a
\* vertex is marked only at a pop that does not return, a pop of the goal or
\* beyond the limit returns with visited and the rest of the queue as they
\* were, the goal is never marked, and no marked vertex is pushed.
C15_CheckMarkExpand ==
    [][/\ Popping =>
           LET s == Head(traversal_queue) IN
           IF Some(s.vertex) = goal
           THEN /\ pc' = "returned" /\ result' = Some(s.operations)
                /\ visited' = visited
                /\ traversal_queue' = Tail(traversal_queue)
           ELSE IF limit > 0 /\ s.operations > limit
           THEN /\ pc' = "returned" /\ result' = Some(-1)
                /\ visited' = visited
                /\ traversal_queue' = Tail(traversal_queue)
           ELSE /\ pc' = "loop"
                /\ visited' = visited \cup {s.vertex}
                /\ \A i \in DOMAIN Pushed : Pushed[i].vertex \notin visited'
       /\ ~Popping => visited' = visited
       /\ goal' # None => goal'[1] \notin visited'
      ]_vars

\* A search that marked vertices returned at a pop of the goal, which is
\* not marked.
C15_Witness ==
    /\ Returned /\ Valid
    /\ step = Some(Traversal(goal[1], result[1]))
    /\ result[1] >= 2
    /\ Cardinality(visited) >= 2
    /\ goal[1] \notin visited

\* The operation counts of the queued records, front to back.
QueuedOperations ==
    [i \in DOMAIN traversal_queue |-> traversal_queue[i].operations]

\* C16: the operation counts in the traversal queue are non-negative and
\* non-decreasing from front to back, the back is at most the front plus 1,
\* and the record popped last has at most the count of the next one to pop,
\* so the counts of the records popped one after the other never decrease.
C16_BfsOrder ==
    LET ops == QueuedOperations IN
    /\ \A i \in DOMAIN ops : ops[i] >= 0
    /\ \A i, j \in DOMAIN ops : i <= j => ops[i] <= ops[j]
    /\ ops # <<>> => ops[Len(ops)] <= ops[1] + 1
    /\ step # None =>
           /\ step[1].operations >= 0
           /\ \A i \in DOMAIN ops :
                  /\ step[1].operations <= ops[i]
                  /\ ops[i] <= step[1].operations + 1

\* A queue that holds records of two depths behind a popped record.
C16_Witness ==
    LET ops == QueuedOperations IN
    /\ pc = "loop" /\ Len(ops) >= 3
    /\ step # None /\ step[1].operations = 2
    /\ ops[1] = 2 /\ ops[Len(ops)] = 3

---------------------------------------------------------------------------
\* Claims about the vertices.

\* The vertices of the search so far: the start vertex, the queued ones and
\* the visited ones.
Vertices ==
    {v \in {start} : v # None}
        \cup {Some(traversal_queue[i].vertex) : i \in DOMAIN traversal_queue}
        \cup {Some(v) : v \in visited}

\* C17: for a 0/1 vector of length n in 3..31 the start vertex, every queued
\* vertex and every visited vertex has no bit at a position >= n, so the
\* entries of visited from 2^n on are never written.
C17_VertexWidth ==
    (Valid /\ Len(nums) < U32Bits) =>
        \A v \in Vertices : v[1] \subseteq 0..(Len(nums) - 1)

\* A search on MaxLen elements that has flipped the three highest bits: a
\* queued and a visited vertex have the highest bit of that width set.
C17_Witness ==
    /\ Valid /\ Len(nums) = MaxLen /\ pc = "loop"
    /\ \E v \in visited : (MaxLen - 1) \in v
    /\ \E i \in DOMAIN traversal_queue : (MaxLen - 1) \in traversal_queue[i].vertex
    /\ Cardinality(visited) >= 3

\* The number a set of bit positions below 31 stands for.
RECURSIVE ValueOf(_)
ValueOf(v) ==
    IF v = {} THEN 0
    ELSE LET e == CHOOSE x \in v : TRUE IN 2 ^ e + ValueOf(v \ {e})

\* nums[0] * 2^0 + ... + nums[n - 1] * 2^(n - 1), from element k (1-based) on.
RECURSIVE WeightedSum(_, _)
WeightedSum(v, k) ==
    IF k > Len(v) THEN 0 ELSE v[k] * 2 ^ (k - 1) + WeightedSum(v, k + 1)

\* C18: for a 0/1 vector of a valid length the encoding does not overflow
\* and the start vertex is the sum of nums[k] * 2^k: bit k of the vertex is
\* nums[k]; [0, 1, 1, 0, 1] encodes to 0b10110 = 22.
C18_Encoding ==
    (Valid /\ pc # "call") =>
        /\ pc # "panicked"
        /\ start = Some({k - 1 : k \in {j \in DOMAIN nums : nums[j] = 1}})
        /\ Len(nums) < U32Bits - 1 => ValueOf(start[1]) = WeightedSum(nums, 1)
        /\ nums = <<0, 1, 1, 0, 1>> => ValueOf(start[1]) = 22

\* The vector of the example was encoded.
C18_Witness ==
    /\ nums = <<0, 1, 1, 0, 1>>
    /\ pc = "loop"
    /\ start = Some({1, 2, 4})

\* The 0/1 vector of n elements a vertex stands for.
Decode(v, n) == [k \in 1..n |-> IF (k - 1) \in v THEN 1 ELSE 0]

\* The least number of flips that lead from nums to the vector of vertex v,
\* -1 when there is none.
Distance(v) == PathLength({nums}, {}, Decode(v, Len(nums)), 0)

\* C19: every record in the traversal queue carries the least number of
\* flips from the start vertex to its vertex, also when the vertex is in the
\* queue more than once.
C19_RecordsAreDistances ==
    Valid =>
        \A i \in DOMAIN traversal_queue :
            traversal_queue[i].operations = Distance(traversal_queue[i].vertex)

\* A queue that holds one vertex twice, two flips from the start.
C19_Witness ==
    /\ Valid /\ pc = "loop"
    /\ \E i, j \in DOMAIN traversal_queue :
           /\ i < j
           /\ traversal_queue[i] = traversal_queue[j]
           /\ traversal_queue[i].operations = 2
           /\ Distance(traversal_queue[i].vertex) = 2

---------------------------------------------------------------------------
\* Claims about the exhausted NumsIter, checked under IterSpec.

\* next() has returned None.
Exhausted == iter # None /\ calls > 0 /\ item = None

\* C20: once next() has returned None, every later call returns None, yields
\* nothing and leaves len, max and next as they were; and next never exceeds
\* max.
C20_ExhaustedStays ==
    [][/\ Exhausted =>
           /\ item' = None
           /\ iter' = iter
           /\ yielded' = yielded
       /\ iter' # None => iter'[1].next <= iter'[1].max
      ]_vars

\* The second None of the iterator of length 3.
C20_Witness ==
    /\ iter = Some([len |-> 3, max |-> 7, next |-> 7])
    /\ calls = 9 /\ item = None /\ Len(yielded) = 7

=============================================================================
